---------------------------- MODULE Spec2Model ----------------------------
(***************************************************************************)
(* A model of package cfg (src/cfg.go): reading key = value configuration  *)
(* files, folding several sources into one table and setting the fields of *)
(* a (possibly nested) struct from that table by reflection, with default  *)
(* values taken from the struct tags.                                      *)
(*                                                                         *)
(* Go strings are modelled as sequences of one-character strings, so that  *)
(* the parsers below work on the text as the code does.  Integers are the  *)
(* checker's integers: every input of the model keeps magnitudes below     *)
(* 2^31, and fields of 8 and 16 bits wrap as reflect's SetInt/SetUint do.  *)
(***************************************************************************)
EXTENDS Integers, Sequences, FiniteSets, TLC

(***************************************************************************)
(* Characters and strings                                                  *)
(***************************************************************************)
Digits == <<"0", "1", "2", "3", "4", "5", "6", "7", "8", "9">>

UpperCase ==
    <<"A", "B", "C", "D", "E", "F", "G", "H", "I", "J", "K", "L", "M",
      "N", "O", "P", "Q", "R", "S", "T", "U", "V", "W", "X", "Y", "Z">>

LowerCase ==
    <<"a", "b", "c", "d", "e", "f", "g", "h", "i", "j", "k", "l", "m",
      "n", "o", "p", "q", "r", "s", "t", "u", "v", "w", "x", "y", "z">>

IsDigit(c) == \E i \in 1..10 : Digits[i] = c

DigitVal(c) == (CHOOSE i \in 1..10 : Digits[i] = c) - 1

\* unicode.IsSpace on the characters a configuration file holds
IsSpace(c) == c \in {" ", "\t", "\n", "\r", "\f"}

ToLowerCh(c) ==
    IF \E i \in 1..26 : UpperCase[i] = c
    THEN LowerCase[CHOOSE i \in 1..26 : UpperCase[i] = c]
    ELSE c

\* strings.ToLower
ToLower(s) == [i \in 1..Len(s) |-> ToLowerCh(s[i])]

\* s[from:] with from counted from 1
Drop(s, n) == SubSeq(s, n + 1, Len(s))

Take(s, n) == SubSeq(s, 1, n)

\* bytes.TrimLeftFunc(s, unicode.IsSpace)
TrimLeft(s) ==
    IF \A i \in 1..Len(s) : IsSpace(s[i])
    THEN <<>>
    ELSE Drop(s, (CHOOSE i \in 1..Len(s) :
                    /\ ~IsSpace(s[i])
                    /\ \A j \in 1..(i - 1) : IsSpace(s[j])) - 1)

\* bytes.TrimRightFunc(s, unicode.IsSpace)
TrimRight(s) ==
    IF \A i \in 1..Len(s) : IsSpace(s[i])
    THEN <<>>
    ELSE Take(s, CHOOSE i \in 1..Len(s) :
                    /\ ~IsSpace(s[i])
                    /\ \A j \in (i + 1)..Len(s) : IsSpace(s[j]))

\* strings.TrimSpace / bytes.TrimSpace
TrimSpace(s) == TrimRight(TrimLeft(s))

\* bytes.TrimRight(s, "\r\n")
TrimRightCRLF(s) ==
    IF \A i \in 1..Len(s) : s[i] \in {"\r", "\n"}
    THEN <<>>
    ELSE Take(s, CHOOSE i \in 1..Len(s) :
                    /\ s[i] \notin {"\r", "\n"}
                    /\ \A j \in (i + 1)..Len(s) : s[j] \in {"\r", "\n"})

\* index of the first occurrence of c in s, 0 when there is none
IndexOf(s, c) ==
    IF \E i \in 1..Len(s) : s[i] = c
    THEN CHOOSE i \in 1..Len(s) : s[i] = c /\ \A j \in 1..(i - 1) : s[j] # c
    ELSE 0

(***************************************************************************)
(* strconv and time parsers used by setField.  Each returns a record       *)
(* [ok, val]; ok = FALSE is the parser's error return.                     *)
(***************************************************************************)
Fail == [ok |-> FALSE, val |-> 0]

Ok(v) == [ok |-> TRUE, val |-> v]

AllDigits(s) == \A i \in 1..Len(s) : IsDigit(s[i])

RECURSIVE DecValue(_)
DecValue(s) ==
    IF s = <<>> THEN 0
    ELSE 10 * DecValue(Take(s, Len(s) - 1)) + DigitVal(s[Len(s)])

RECURSIVE StripZeros(_)
StripZeros(s) ==
    IF Len(s) > 1 /\ s[1] = "0" THEN StripZeros(Drop(s, 1)) ELSE s

\* More significant digits than any 64-bit number has: strconv's range error.
OutOfRange64(s) == Len(StripZeros(s)) > 20

\* strconv.ParseUint(s, 10, 64)
ParseUint(s) ==
    IF s = <<>> \/ ~AllDigits(s) THEN Fail
    ELSE IF OutOfRange64(s) THEN Fail
    ELSE Ok(DecValue(StripZeros(s)))

\* a parsed magnitude with its sign
SignedResult(neg, u) ==
    IF ~u.ok THEN Fail ELSE Ok(IF neg THEN 0 - u.val ELSE u.val)

\* strconv.ParseInt(s, 10, 64)
ParseInt(s) ==
    IF s = <<>> THEN Fail
    ELSE SignedResult(s[1] = "-",
                      ParseUint(IF s[1] \in {"+", "-"} THEN Drop(s, 1) ELSE s))

\* strconv.ParseBool
ParseBool(s) ==
    IF s \in {<<"1">>, <<"t">>, <<"T">>, <<"T", "R", "U", "E">>,
              <<"t", "r", "u", "e">>, <<"T", "r", "u", "e">>}
    THEN Ok(TRUE)
    ELSE IF s \in {<<"0">>, <<"f">>, <<"F">>, <<"F", "A", "L", "S", "E">>,
                   <<"f", "a", "l", "s", "e">>, <<"F", "a", "l", "s", "e">>}
    THEN Ok(FALSE)
    ELSE Fail

\* number of leading decimal digits of s
LeadingDigits(s) ==
    IF AllDigits(s) THEN Len(s)
    ELSE (CHOOSE i \in 1..Len(s) :
            ~IsDigit(s[i]) /\ \A j \in 1..(i - 1) : IsDigit(s[j])) - 1

\* A float64 is kept as the decimal m * 10^e it was read from, normalised;
\* sp names an infinity or NaN.
RECURSIVE NormFloat(_, _)
NormFloat(m, e) ==
    IF m = 0 THEN [m |-> 0, e |-> 0, sp |-> ""]
    ELSE IF m % 10 = 0 THEN NormFloat(m \div 10, e + 1)
    ELSE [m |-> m, e |-> e, sp |-> ""]

Signed(neg, x) == IF neg THEN 0 - x ELSE x

\* strconv.ParseFloat(s, 64) on decimal literals (no hexadecimal mantissa):
\* [+-] digits [. digits] [(e|E) [+-] digits], "inf", "infinity", "nan".
\* The stages: the exponent's digits r5, ...
FloatExpValue(neg, int, frac, eneg, r5) ==
    IF r5 = <<>> \/ ~AllDigits(r5) THEN Fail
    ELSE Ok(NormFloat(Signed(neg, DecValue(int \o frac)),
                      Signed(eneg, DecValue(r5)) - Len(frac)))

\* ... the exponent r4 after its letter, ...
FloatExpSign(neg, int, frac, r4) ==
    IF r4 = <<>> THEN Fail
    ELSE FloatExpValue(neg, int, frac, r4[1] = "-",
                       IF r4[1] \in {"+", "-"} THEN Drop(r4, 1) ELSE r4)

\* ... what follows the mantissa, r3, ...
FloatExp(neg, int, frac, r3) ==
    IF Len(int) + Len(frac) = 0 THEN Fail
    ELSE IF r3 = <<>>
    THEN Ok(NormFloat(Signed(neg, DecValue(int \o frac)), 0 - Len(frac)))
    ELSE IF r3[1] \notin {"e", "E"} THEN Fail
    ELSE FloatExpSign(neg, int, frac, Drop(r3, 1))

\* ... the fraction r2 after the point, ...
FloatFrac(neg, int, r2) ==
    FloatExp(neg, int, Take(r2, LeadingDigits(r2)), Drop(r2, LeadingDigits(r2)))

\* ... what follows the integer digits, r1, ...
FloatDot(neg, int, r1) ==
    IF r1 # <<>> /\ r1[1] = "." THEN FloatFrac(neg, int, Drop(r1, 1))
    ELSE FloatExp(neg, int, <<>>, r1)

\* ... and the text after the sign.
FloatUnsigned(neg, signed, rest) ==
    IF ToLower(rest) \in {<<"i", "n", "f">>,
                          <<"i", "n", "f", "i", "n", "i", "t", "y">>}
    THEN Ok([m |-> 0, e |-> 0, sp |-> IF neg THEN "-inf" ELSE "+inf"])
    ELSE IF ToLower(rest) = <<"n", "a", "n">> /\ ~signed
    THEN Ok([m |-> 0, e |-> 0, sp |-> "nan"])
    ELSE FloatDot(neg, Take(rest, LeadingDigits(rest)),
                  Drop(rest, LeadingDigits(rest)))

ParseFloat(s) ==
    IF s = <<>> THEN Fail
    ELSE FloatUnsigned(s[1] = "-", s[1] \in {"+", "-"},
                       IF s[1] \in {"+", "-"} THEN Drop(s, 1) ELSE s)

\* time's unitMap (the ASCII units), in nanoseconds; 0: no such unit
UnitOf(u) ==
    CASE u = <<"n", "s">> -> 1
      [] u = <<"u", "s">> -> 1000
      [] u = <<"m", "s">> -> 1000000
      [] u = <<"s">> -> 1000000000
      [] u = <<"m">> -> 60 * 1000000000
      [] u = <<"h">> -> 3600 * 1000000000
      [] OTHER -> 0

\* length of the unit that starts s: up to the next digit or '.'
UnitLen(s) ==
    IF \A i \in 1..Len(s) : ~(IsDigit(s[i]) \/ s[i] = ".") THEN Len(s)
    ELSE (CHOOSE i \in 1..Len(s) :
            /\ IsDigit(s[i]) \/ s[i] = "."
            /\ \A j \in 1..(i - 1) : ~(IsDigit(s[j]) \/ s[j] = ".")) - 1

\* the ticks of the fraction f / scale of a unit
FracTicks(f, unit, scale) ==
    IF unit % scale = 0 THEN f * (unit \div scale) ELSE (f * unit) \div scale

\* The loop of time.ParseDuration over ([0-9]*(\.[0-9]*)?[a-z]+)+, d being
\* the ticks read so far.  The stages of one pass: the unit found, ...
RECURSIVE DurationLoop(_, _)
DurationAdd(int, frac, unit, rest, d) ==
    IF unit = 0 THEN Fail
    ELSE DurationLoop(rest,
                      d + DecValue(StripZeros(int)) * unit
                        + FracTicks(DecValue(frac), unit, 10 ^ Len(frac)))

\* ... the text s3 after the number, ...
DurationUnit(int, frac, s3, d) ==
    IF OutOfRange64(int) THEN Fail
    ELSE IF Len(int) + Len(frac) = 0 THEN Fail
    ELSE IF UnitLen(s3) = 0 THEN Fail
    ELSE DurationAdd(int, frac, UnitOf(Take(s3, UnitLen(s3))),
                     Drop(s3, UnitLen(s3)), d)

\* ... the text s1 after the integer digits, ...
DurationFraction(int, s1, d) ==
    IF s1 # <<>> /\ s1[1] = "."
    THEN DurationUnit(int, Take(Drop(s1, 1), LeadingDigits(Drop(s1, 1))),
                      Drop(Drop(s1, 1), LeadingDigits(Drop(s1, 1))), d)
    ELSE DurationUnit(int, <<>>, s1, d)

\* ... and the pass itself.
DurationLoop(s, d) ==
    IF s = <<>> THEN Ok(d)
    ELSE IF ~(s[1] = "." \/ IsDigit(s[1])) THEN Fail
    ELSE DurationFraction(Take(s, LeadingDigits(s)),
                          Drop(s, LeadingDigits(s)), d)

DurationUnsigned(neg, rest) ==
    IF rest = <<"0">> THEN Ok(0)
    ELSE IF rest = <<>> THEN Fail
    ELSE SignedResult(neg, DurationLoop(rest, 0))

\* time.ParseDuration: the duration in nanoseconds
ParseDuration(s) ==
    DurationUnsigned(s # <<>> /\ s[1] = "-",
                     IF s # <<>> /\ s[1] \in {"+", "-"} THEN Drop(s, 1) ELSE s)

(***************************************************************************)
(* FileSize, the package's own CustomType                                  *)
(***************************************************************************)
\* A call that returns: res is "ok" (nil error), "err" (an error value) or
\* "panic" (a run-time panic unwinding the call); val is what the field
\* holds afterwards.
Outcome(r, v) == [res |-> r, val |-> v]

\* *fs = FileSize(uint64(ps) * mp), or strconv's error
SizeResult(fs, mp, ps) ==
    IF ~ps.ok THEN Outcome("err", fs) ELSE Outcome("ok", ps.val * mp)

\* the switch on value[last-1]: c is that character
UnmarshalUnit(fs, low, c) ==
    CASE c = "t" -> SizeResult(fs, 2 ^ 40, ParseUint(TrimSpace(Take(low, Len(low) - 2))))
      [] c = "g" -> SizeResult(fs, 2 ^ 30, ParseUint(TrimSpace(Take(low, Len(low) - 2))))
      [] c = "m" -> SizeResult(fs, 2 ^ 20, ParseUint(TrimSpace(Take(low, Len(low) - 2))))
      [] c = "k" -> SizeResult(fs, 2 ^ 10, ParseUint(TrimSpace(Take(low, Len(low) - 2))))
      [] OTHER -> SizeResult(fs, 1, ParseUint(TrimSpace(Take(low, Len(low) - 1))))

\* after value = strings.TrimSpace(strings.ToLower(value)): value[last] and
\* value[last-1] are read without a check of the length
UnmarshalLower(fs, low) ==
    IF Len(low) = 0 THEN Outcome("panic", fs)
    ELSE IF low[Len(low)] # "b" THEN SizeResult(fs, 1, ParseUint(low))
    ELSE IF Len(low) = 1 THEN Outcome("panic", fs)
    ELSE UnmarshalUnit(fs, low, low[Len(low) - 1])

\* FileSize.Unmarshal: fs is the value the receiver points to before the
\* call.  On the empty string only the local pointer is redirected
\* (fs = &size): the receiver's value stays.
Unmarshal(fs, value) ==
    IF Len(value) = 0 THEN Outcome("ok", fs)
    ELSE UnmarshalLower(fs, TrimSpace(ToLower(value)))

\* var sizes = []string{"B", "KB", "MB", "GB", "TB"}
sizes == <<<<"B">>, <<"K", "B">>, <<"M", "B">>, <<"G", "B">>, <<"T", "B">>>>

\* fmt's %d of a number that is not negative
RECURSIVE FormatUint(_)
FormatUint(n) ==
    IF n < 10 THEN <<Digits[n + 1]>>
    ELSE FormatUint(n \div 10) \o <<Digits[(n % 10) + 1]>>

\* math.Floor(math.Log(float64(fs)) / math.Log(1024)) of fs > 0.  Below
\* 2^31 the quotient of the two float64 logarithms lies on the right side
\* of every power of 1024, so the floor is the integer logarithm.
RECURSIVE FloorLog1024(_)
FloorLog1024(fs) == IF fs < 1024 THEN 0 ELSE 1 + FloorLog1024(fs \div 1024)

\* if exp > 4 { exp = 4 }
CapExp(exp) == IF exp > 4 THEN 4 ELSE exp

\* tenths rounded to the nearest instead of up
RoundTenths(fs, unit) ==
    10 * (fs \div unit) + (10 * (fs % unit) + unit \div 2) \div unit

\* math.Ceil(val * 10) for val = float64(fs) / math.Pow(1024, exp), unit
\* being 1024^exp: the division by a power of two and the product by ten
\* are exact in float64, so this is the least number of tenths not below
\* fs / unit.  It is computed from the quotient and the remainder, which
\* keeps the numbers small.
CeilTenths(fs, unit) ==
    10 * (fs \div unit) + (10 * (fs % unit) + unit - 1) \div unit

\* fmt.Sprintf("%.1f %s", tenths / 10, s)
FormatTenths(tenths, s) ==
    FormatUint(tenths \div 10) \o <<".", Digits[(tenths % 10) + 1], " ">> \o s

\* HumanReadable from s := sizes[int(exp)] on
HumanReadableExp(fs, exp) ==
    IF exp = 0 THEN FormatUint(fs) \o <<" ">> \o sizes[1]
    ELSE FormatTenths(CeilTenths(fs, 1024 ^ exp), sizes[exp + 1])

\* FileSize.HumanReadable
HumanReadable(fs) ==
    IF fs = 0 THEN <<"0">> ELSE HumanReadableExp(fs, CapExp(FloorLog1024(fs)))

\* LogLevel.Unmarshal of the sample program, a CustomType of an application
UnmarshalLogLevel(lm, value) ==
    IF ToLower(value) = <<"i", "n", "f", "o">> THEN Outcome("ok", 0)
    ELSE IF ToLower(value) = <<"d", "e", "b", "u", "g">> THEN Outcome("ok", 1)
    ELSE Outcome("err", lm)

(***************************************************************************)
(* setField: the coercion of one raw string into one field                 *)
(***************************************************************************)
\* the field types of the model, by their Go names
SignedKinds == {"int8", "int16", "int", "int64", "Duration"}

UnsignedKinds == {"uint8", "uint16", "uint32", "uint64"}

FloatKinds == {"float32", "float64"}

\* kinds setField's switch has no case for
NoCaseKinds == {"int32", "uint"}

\* types whose pointer implements CustomType
CustomKinds == {"FileSize", "LogLevel"}

LeafKinds ==
    {"string", "bool"} \cup CustomKinds \cup SignedKinds \cup UnsignedKinds
        \cup FloatKinds \cup NoCaseKinds

\* the width in bits that reflect's SetInt and SetUint store
BitsOf(kind) ==
    CASE kind \in {"int8", "uint8"} -> 8
      [] kind \in {"int16", "uint16"} -> 16
      [] kind \in {"int32", "uint32"} -> 32
      [] OTHER -> 64

\* x stored in a signed field of the kind (two's complement truncation)
WrapInt(kind, x) ==
    IF BitsOf(kind) >= 32 THEN x
    ELSE IF x % (2 ^ BitsOf(kind)) >= 2 ^ (BitsOf(kind) - 1)
    THEN (x % (2 ^ BitsOf(kind))) - 2 ^ BitsOf(kind)
    ELSE x % (2 ^ BitsOf(kind))

\* x stored in an unsigned field of the kind
WrapUint(kind, x) ==
    IF BitsOf(kind) >= 32 THEN x ELSE x % (2 ^ BitsOf(kind))

\* iVal, err := strconv.ParseInt(value, 10, 64) and field.SetInt
setInt(kind, old, i) ==
    IF ~i.ok THEN Outcome("err", old) ELSE Outcome("ok", WrapInt(kind, i.val))

\* case reflect.Int8, reflect.Int16, reflect.Int, reflect.Int64: d is the
\* result of time.ParseDuration.  field.Set(reflect.ValueOf(d)) panics
\* unless the field's type is time.Duration itself.
setSigned(kind, old, value, d) ==
    IF d.ok
    THEN IF kind = "Duration" THEN Outcome("ok", d.val) ELSE Outcome("panic", old)
    ELSE setInt(kind, old, ParseInt(value))

\* case reflect.Uint8, reflect.Uint16, reflect.Uint32, reflect.Uint64
setUint(kind, old, u) ==
    IF ~u.ok THEN Outcome("err", old) ELSE Outcome("ok", WrapUint(kind, u.val))

\* the result of a strconv parser stored as it is
setParsed(old, r) ==
    IF ~r.ok THEN Outcome("err", old) ELSE Outcome("ok", r.val)

\* case reflect.Bool
setBool(old, value) ==
    IF value \in {<<"y", "e", "s">>, <<"Y", "E", "S">>, <<"Y", "e", "s">>}
    THEN Outcome("ok", TRUE)
    ELSE IF value \in {<<"n", "o">>, <<"N", "O">>, <<"N", "o">>}
    THEN Outcome("ok", FALSE)
    ELSE setParsed(old, ParseBool(value))

\* setField(field, value): kind is the field's type, old its value before
\* the call
setField(kind, old, value) ==
    IF kind = "FileSize" THEN Unmarshal(old, value)
    ELSE IF kind = "LogLevel" THEN UnmarshalLogLevel(old, value)
    ELSE IF kind = "string" THEN Outcome("ok", value)
    ELSE IF kind \in SignedKinds
    THEN setSigned(kind, old, value, ParseDuration(value))
    ELSE IF kind \in UnsignedKinds THEN setUint(kind, old, ParseUint(value))
    ELSE IF kind = "bool" THEN setBool(old, value)
    ELSE IF kind \in FloatKinds THEN setParsed(old, ParseFloat(value))
    ELSE Outcome("ok", old)

(***************************************************************************)
(* parse: a file's text to its key/value table                             *)
(***************************************************************************)
\* a Go map as a function on its key set
EmptyMap == [k \in {} |-> <<>>]

Put(m, k, v) == [x \in (DOMAIN m) \cup {k} |-> IF x = k THEN v ELSE m[x]]

Remove(m, k) == [x \in (DOMAIN m) \ {k} |-> m[x]]

\* bufio's dropCR
DropCR(s) == IF s # <<>> /\ s[Len(s)] = "\r" THEN Take(s, Len(s) - 1) ELSE s

\* the tokens of bufio.ScanLines
RECURSIVE ScanLines(_)
ScanFrom(text, i) ==
    IF i = 0 THEN <<DropCR(text)>>
    ELSE <<DropCR(Take(text, i - 1))>> \o ScanLines(Drop(text, i))

ScanLines(text) ==
    IF text = <<>> THEN <<>> ELSE ScanFrom(text, IndexOf(text, "\n"))

\* a split in which a key that is already in the table keeps its entry
parsePairKeepingFirst(kvmap, line, eq) ==
    IF eq = 0 THEN kvmap
    ELSE IF TrimRight(Take(line, eq - 1)) \in DOMAIN kvmap THEN kvmap
    ELSE Put(kvmap, TrimRight(Take(line, eq - 1)),
             TrimSpace(TrimRightCRLF(Drop(line, eq))))

\* kv := bytes.SplitN(line, "=", 2) and the entry it gives; eq is the place
\* of the first '='
parsePair(kvmap, line, eq) ==
    IF eq = 0 THEN kvmap
    ELSE Put(kvmap, TrimRight(Take(line, eq - 1)),
             TrimSpace(TrimRightCRLF(Drop(line, eq))))

\* the loop body of parse after line = bytes.TrimLeftFunc(line, IsSpace)
parseTrimmed(kvmap, line) ==
    IF Len(line) = 0 THEN kvmap
    ELSE IF line[1] = "#" THEN kvmap
    ELSE parsePair(kvmap, line, IndexOf(line, "="))

\* one pass of parse's loop body over a scanned line
parseLine(kvmap, raw) == parseTrimmed(kvmap, TrimLeft(raw))

RECURSIVE parseLines(_, _, _)
parseLines(lines, n, kvmap) ==
    IF n > Len(lines) THEN kvmap
    ELSE parseLines(lines, n + 1, parseLine(kvmap, lines[n]))

\* parse(file, dest) when the scanner reports no error
parse(text) == parseLines(ScanLines(text), 1, EmptyMap)

\* a fold in which the entry of the earlier source stays
FoldKeepingFirst(kvs, kv) ==
    [k \in (DOMAIN kvs) \cup (DOMAIN kv) |->
        IF k \in DOMAIN kvs THEN kvs[k] ELSE kv[k]]

\* for k, v := range kv { kvs[k] = v }
Fold(kvs, kv) ==
    [k \in (DOMAIN kvs) \cup (DOMAIN kv) |->
        IF k \in DOMAIN kv THEN kv[k] ELSE kvs[k]]

(***************************************************************************)
(* The target: a struct type as the sequence of its fields.  A field is    *)
(* [Name, cfg, def, kind, CanSet, fields]: its name, its cfg and default   *)
(* tags ("" when absent), its type, whether reflect can set it (exported), *)
(* and, for kind "struct", the fields of the nested struct.                *)
(***************************************************************************)
Leaf(name, tag, def, kind) ==
    [Name |-> name, cfg |-> tag, def |-> def, kind |-> kind,
     CanSet |-> TRUE, fields |-> <<>>]

Struct(name, fields) ==
    [Name |-> name, cfg |-> <<>>, def |-> <<>>, kind |-> "struct",
     CanSet |-> TRUE, fields |-> fields]

Unexported(f) == [f EXCEPT !.CanSet = FALSE]

\* the paths (field indices from the root) of the non-struct fields
RECURSIVE LeafPaths(_, _)
LeafPaths(T, prefix) ==
    UNION {IF T[i].kind = "struct"
           THEN LeafPaths(T[i].fields, Append(prefix, i))
           ELSE {Append(prefix, i)} : i \in 1..Len(T)}

RECURSIVE FieldAt(_, _)
FieldAt(T, path) ==
    IF Len(path) = 1 THEN T[path[1]]
    ELSE FieldAt(T[path[1]].fields, Tail(path))

\* the zero value of a type
Zero(kind) ==
    CASE kind = "string" -> <<>>
      [] kind = "bool" -> FALSE
      [] kind \in FloatKinds -> NormFloat(0, 0)
      [] OTHER -> 0

\* sKey of setFields: the cfg tag, or the field's name
KeyOf(f) == IF Len(f.cfg) = 0 THEN f.Name ELSE f.cfg

(***************************************************************************)
(* setFields: the walk over the struct and the loop over the defaults      *)
(***************************************************************************)
NoErr == [kind |-> "none", key |-> <<>>]

\* The walk's state: the fields' values, the defaults map (key -> Default,
\* whose field is kept as the field's path and type), and how the call ends
\* ("ok": still running or returned nil).
WalkState(vals, defaults) ==
    [vals |-> vals, defaults |-> defaults, res |-> "ok", err |-> NoErr]

\* setField(d.field, d.Value) of the defaults loop returned o
defaultSet(k, st, d, o) ==
    CASE o.res = "panic" -> [st EXCEPT !.res = "panic"]
      [] o.res = "err" ->
            [st EXCEPT !.res = "err", !.err = [kind |-> "default", key |-> k]]
      [] OTHER -> [st EXCEPT !.vals[d.field] = o.val]

applyDefaultOf(k, st, d) ==
    defaultSet(k, st, d, setField(d.kind, st.vals[d.field], d.Value))

\* one pass of the body of "for k, d := range defaults" for the key k
applyDefault(k, st) ==
    IF k \notin DOMAIN st.defaults THEN st
    ELSE applyDefaultOf(k, st, st.defaults[k])

\* for k, d := range defaults: the keys are visited in the order ord gives
\* them (Go leaves the order of a map's range open); the loop ends at the
\* first return
RECURSIVE applyDefaults(_, _, _)
applyDefaults(ord, j, st) ==
    IF j > Len(ord) \/ st.res # "ok" THEN st
    ELSE applyDefaults(ord, j + 1, applyDefault(ord[j], st))

\* def = Default{Value: defValue, field: el.Field(i)}; defaults[sKey] = def
registerDefault(f, p, sKey, st) ==
    IF Len(f.def) > 0
    THEN [st EXCEPT !.defaults =
            Put(st.defaults, sKey,
                [Value |-> f.def, field |-> p, kind |-> f.kind])]
    ELSE st

\* setField(el.Field(i), value) returned o
fieldSet(f, p, sKey, st, o) ==
    CASE o.res = "panic" -> [st EXCEPT !.res = "panic"]
      [] o.res = "err" ->
            IF Len(f.def) > 0 THEN st
            ELSE [st EXCEPT !.res = "err",
                            !.err = [kind |-> "value", key |-> sKey]]
      [] OTHER ->
            [st EXCEPT !.vals[p] = o.val, !.defaults = Remove(st.defaults, sKey)]

\* value, ok := kv[sKey], after the default was registered
lookupField(f, p, sKey, kv, st) ==
    IF sKey \notin DOMAIN kv THEN st
    ELSE fieldSet(f, p, sKey, st, setField(f.kind, st.vals[p], kv[sKey]))

\* a loop body that does not descend into a nested struct
visitFieldNotDescending(f, p, kv, st, ord) ==
    IF f.kind = "struct" THEN st
    ELSE IF ~f.CanSet THEN st
    ELSE IF f.cfg = <<"-">> THEN st
    ELSE lookupField(f, p, KeyOf(f), kv, registerDefault(f, p, KeyOf(f), st))

RECURSIVE setFieldsAt(_, _, _, _, _)
\* the body of the loop over el.NumField() for the field f at path p
visitField(f, p, kv, st, ord) ==
    IF f.kind = "struct" THEN
        IF ~f.CanSet THEN [st EXCEPT !.res = "panic"]
        ELSE setFieldsAt(f.fields, p, kv, st, ord)
    ELSE IF ~f.CanSet THEN st
    ELSE IF f.cfg = <<"-">> THEN st
    ELSE lookupField(f, p, KeyOf(f), kv, registerDefault(f, p, KeyOf(f), st))

\* the loop over el.NumField(), from field i on; it ends at the first return
RECURSIVE walk(_, _, _, _, _, _)
walk(T, path, i, kv, st, ord) ==
    IF i > Len(T) \/ st.res # "ok" THEN st
    ELSE walk(T, path, i + 1, kv,
              visitField(T[i], Append(path, i), kv, st, ord), ord)

\* setFields on a pointer to a struct of type T at path
setFieldsAt(T, path, kv, st, ord) ==
    applyDefaults(ord, 1, walk(T, path, 1, kv, st, ord))

\* setFields(kv, defaults, dest) as MergeConfigsInto and LoadConfigInto call
\* it.  dest.shape is what the interface holds: "ptr" a pointer to a struct,
\* "value" a struct passed by value, "nil" a nil interface, "nilptr" a nil
\* struct pointer, "ptrint" a pointer to a non-struct.
setFields(kv, dest, vals, ord) ==
    IF dest.shape \in {"value", "nil"}
    THEN [WalkState(vals, EmptyMap) EXCEPT
            !.res = "err", !.err = [kind |-> "ptr", key |-> <<>>]]
    ELSE IF dest.shape \in {"nilptr", "ptrint"}
    THEN [WalkState(vals, EmptyMap) EXCEPT !.res = "panic"]
    ELSE setFieldsAt(dest.type, <<>>, kv, WalkState(vals, EmptyMap), ord)

(***************************************************************************)
(* Inputs: the texts of the configuration files, the targets               *)
(***************************************************************************)
\* the most sources a ConfigFiles holds
MaxFiles == 2

\* the deepest nesting of a generated target's fields
MaxDepth == 2

ConfBase ==
    <<"#", " ", "b", "a", "s", "e", "\n", "s", "e", "s", "s", "i", "o",
      "n", "_", "n", "a", "m", "e", " ", "=", " ", "m", "a", "i", "n",
      "\n", "p", "o", "r", "t", " ", "=", " ", "8", "0", "8", "0", "\n",
      "v", "e", "r", "b", "o", "s", "e", " ", "=", " ", "n", "o", "\n",
      "s", "e", "s", "s", "i", "o", "n", "_", "t", "i", "m", "e", "o", "u",
      "t", " ", "=", " ", "1", "s", "\n", "s", "e", "r", "v", "e", "r",
      "_", "a", "d", "d", "r", "e", "s", "s", " ", "=", " ", "l", "o", "c",
      "a", "l", "h", "o", "s", "t", "\n", "s", "e", "r", "v", "e", "r",
      "_", "p", "o", "r", "t", " ", "=", " ", "4", "2", "\n", "f", "i",
      "l", "e", "s", "i", "z", "e", " ", "=", " ", "1", "0", "M", "B",
      "\n", "l", "o", "g", "_", "f", "i", "l", "e", " ", "=", " ", "/",
      "m", "y", ".", "l", "o", "g", "\n", "l", "o", "g", "_", "l", "e",
      "v", "e", "l", " ", "=", " ", "D", "e", "b", "u", "g", "\n">>

ConfOverlay ==
    <<"p", "o", "r", "t", " ", "=", " ", "9", "0", "9", "0", "\r", "\n",
      " ", " ", "p", "o", "r", "t", " ", "=", " ", "a", "b", "c", "\n",
      "n", "o", "t", " ", "a", " ", "p", "a", "i", "r", "\n", "\n", "s",
      "e", "r", "v", "e", "r", "_", "p", "o", "r", "t", "=", "4", "3",
      "\n", "l", "o", "g", "_", "l", "e", "v", "e", "l", " ", "=", " ",
      "i", "n", "f", "o", "\n", "S", "i", "z", "e", " ", "=", " ", "3",
      "1", " ", "\n", "#", "p", "o", "r", "t", " ", "=", " ", "1", "\n">>

ConfThird ==
    <<"p", "o", "r", "t", " ", "=", " ", "7", "\n", "v", "e", "r", "b",
      "o", "s", "e", " ", "=", " ", "Y", "E", "S", "\n", "f", "i", "l",
      "e", "s", "i", "z", "e", " ", "=", " ", "b", "\n">>

\* What os.Open finds at a source's path: state is "ok" (the file opens),
\* "absent" (os.IsNotExist) or "denied" (another error); text is the file's
\* content and readErr tells that reading it fails (scanner.Err() # nil).
Disk(state, text, readErr) ==
    [state |-> state, text |-> text, readErr |-> readErr]

Disks ==
    {Disk("absent", <<>>, FALSE), Disk("denied", <<>>, FALSE),
     Disk("ok", ConfBase, FALSE), Disk("ok", ConfOverlay, FALSE),
     Disk("ok", ConfThird, FALSE), Disk("ok", ConfBase, TRUE)}

\* File{Name, Path, Required}, with what its path holds
File(required, disk) == [Required |-> required, disk |-> disk]

FileLists ==
    UNION {[1..n -> {File(r, d) : r \in BOOLEAN, d \in Disks}] : n \in 0..MaxFiles}

\* the settings struct of TestStandardConfig
StandardSettings ==
    <<Leaf(<<"S", "e", "s", "s", "i", "o", "n", "N", "a", "m", "e">>, <<"s", "e", "s", "s", "i", "o", "n", "_", "n", "a", "m", "e">>, <<>>, "string"),
      Leaf(<<"P", "o", "r", "t">>, <<"p", "o", "r", "t">>, <<"2", "0", "0", "0">>, "int"),
      Leaf(<<"S", "i", "z", "e">>, <<>>, <<"3", "0">>, "int"),
      Leaf(<<"V", "e", "r", "b", "o", "s", "e">>, <<"v", "e", "r", "b", "o", "s", "e">>, <<"y", "e", "s">>, "bool"),
      Leaf(<<"S", "e", "s", "s", "i", "o", "n", "T", "i", "m", "e", "o", "u", "t">>, <<"s", "e", "s", "s", "i", "o", "n", "_", "t", "i", "m", "e", "o", "u", "t">>, <<>>, "Duration")>>

\* the settings struct of TestInnerStruct
InnerSettings ==
    <<Struct(<<"S", "e", "r", "v", "e", "r">>,
             <<Leaf(<<"A", "d", "d", "r", "e", "s", "s">>, <<"s", "e", "r", "v", "e", "r", "_", "a", "d", "d", "r", "e", "s", "s">>, <<>>, "string"),
               Leaf(<<"P", "o", "r", "t">>, <<"s", "e", "r", "v", "e", "r", "_", "p", "o", "r", "t">>, <<>>, "int")>>)>>

\* Settings of the sample program, with its embedded Log
SampleSettings ==
    <<Leaf(<<"S", "e", "r", "v", "e", "r", "P", "o", "r", "t">>, <<"s", "e", "r", "v", "e", "r", "_", "p", "o", "r", "t">>, <<"8", "0", "8", "0">>, "int"),
      Leaf(<<"F", "i", "l", "e", "s", "i", "z", "e">>, <<"f", "i", "l", "e", "s", "i", "z", "e">>, <<>>, "FileSize"),
      Struct(<<"L", "o", "g">>,
             <<Leaf(<<"F", "i", "l", "e">>, <<"l", "o", "g", "_", "f", "i", "l", "e">>, <<>>, "string"),
               Leaf(<<"L", "e", "v", "e", "l">>, <<"l", "o", "g", "_", "l", "e", "v", "e", "l">>, <<>>, "LogLevel")>>)>>

\* a struct with a default at its top level and one two structs deep
NestedSettings ==
    <<Leaf(<<"P", "o", "r", "t">>, <<"p", "o", "r", "t">>, <<"2", "0", "0", "0">>, "int"),
      Struct(<<"S", "e", "r", "v", "e", "r">>,
             <<Leaf(<<"A", "d", "d", "r", "e", "s", "s">>, <<"s", "e", "r", "v", "e", "r", "_", "a", "d", "d", "r", "e", "s", "s">>, <<>>, "string"),
               Struct(<<"L", "o", "g">>,
                      <<Leaf(<<"L", "e", "v", "e", "l">>, <<"l", "o", "g", "_", "l", "e", "v", "e", "l">>, <<>>, "LogLevel"),
                        Leaf(<<"F", "i", "l", "e">>, <<"l", "o", "g", "_", "f", "i", "l", "e">>, <<"/", "d", "e", "v", "/", "n", "u", "l", "l">>, "string")>>)>>)>>

\* the raw strings a generated target's defaults and table entries take
RawDefaults == {<<>>, <<"4", "2">>, <<"a", "b", "c">>, <<"1">>}

RawValues ==
    {<<>>, <<"4", "2">>, <<"a", "b", "c">>, <<"3", "0", "0">>, <<"b">>,
     <<"1", "s">>, <<"y", "e", "s">>}

ProbeKinds ==
    {"string", "int", "int8", "int32", "Duration", "uint8", "uint", "bool",
     "float64", "FileSize", "LogLevel"}

\* the field A `cfg:"a"` of a generated target: every type with every default,
\* and an unexported and an excluded (cfg:"-") variant
ProbeFields ==
    {Leaf(<<"A">>, <<"a">>, d, k) : d \in RawDefaults, k \in ProbeKinds}
        \cup {Unexported(Leaf(<<"A">>, <<"a">>, <<"4", "2">>, "int")),
              Leaf(<<"A">>, <<"-">>, <<"4", "2">>, "int")}

\* the untagged field B beside it
CompanionFields ==
    {Leaf(<<"B">>, <<>>, <<"4", "2">>, "int"),
     Leaf(<<"B">>, <<>>, <<>>, "string"),
     Leaf(<<"B">>, <<>>, <<>>, "int8"),
     Leaf(<<"B">>, <<>>, <<"a", "b", "c">>, "bool")}

CompanionValues == {<<"4", "2">>, <<"a", "b", "c">>}

\* f inside d nested structs
RECURSIVE Wrap(_, _)
Wrap(f, d) == IF d = 0 THEN f ELSE Struct(<<"I", "n">>, <<Wrap(f, d - 1)>>)

\* the struct types holding x and y: each at its own depth in either order,
\* or both inside one nested struct
Shapes(x, y) ==
    {<<Wrap(x, dx), Wrap(y, dy)>> : dx \in 0..MaxDepth, dy \in 0..MaxDepth}
        \cup {<<y, Wrap(x, dx)>> : dx \in 0..MaxDepth}
        \cup {<<Wrap(Struct(<<"I", "n">>, <<x, y>>), d)>> : d \in 0..(MaxDepth - 1)}

\* the text of a file holding the given entries for the keys a and B
\* (an entry is a set: empty, or the one value)
Render(va, vb) ==
    (IF va = {} THEN <<>>
     ELSE <<"a", " ", "=", " ">> \o (CHOOSE v \in va : TRUE) \o <<"\n">>)
    \o (IF vb = {} THEN <<>>
        ELSE <<"B", "=">> \o (CHOOSE v \in vb : TRUE) \o <<"\n">>)

Entries(S) == {{}} \cup {{v} : v \in S}

\* a value of the type that differs from its zero value
NonZero(kind) ==
    CASE kind = "string" -> <<"o", "l", "d">>
      [] kind = "bool" -> TRUE
      [] kind \in FloatKinds -> NormFloat(7, 0)
      [] kind = "LogLevel" -> 1
      [] OTHER -> 7

\* the fields' values before the merge: new(T), or a struct already filled
PreVals(T, preset) ==
    [p \in LeafPaths(T, <<>>) |->
        IF preset THEN NonZero(FieldAt(T, p).kind) ELSE Zero(FieldAt(T, p).kind)]

\* dest, the interface value handed to the merge
Dest(shape, T, preset) == [shape |-> shape, type |-> T, preset |-> preset]

BadDests == {Dest(s, <<>>, FALSE) : s \in {"nil", "nilptr", "ptrint"}}

SmallDests ==
    BadDests
        \cup {Dest(s, T, b) : s \in {"ptr", "value"}, b \in BOOLEAN,
                              T \in {StandardSettings, InnerSettings, SampleSettings,
                                    NestedSettings}}

(***************************************************************************)
(* The state of one call of MergeConfigsInto or LoadConfigInto             *)
(***************************************************************************)
VARIABLES
    api,      \* "Merge" (ConfigFiles.MergeConfigsInto) or "Load" (LoadConfigInto)
    files,    \* c.Files with what each path holds; Load's one file
    dest,     \* the dest argument
    vals,     \* the values of dest's fields, by path
    idx,      \* the source the range loop is at
    pc,       \* "open": before os.Open of source idx (past the last source:
              \*   before setFields); "parse": source idx is open; "done"
    handles,  \* the sources whose *os.File is open
    opened,   \* the sources opened so far, in order
    kvs,      \* the accumulated table
    ret,      \* what the call returned
    call      \* a parser, decoder or renderer called on its own: which one,
              \*   its arguments, and what it returned

vars == <<api, files, dest, vals, idx, pc, handles, opened, kvs, ret, call>>

NoReturn ==
    [res |-> "none", hasMap |-> FALSE, defaults |-> EmptyMap, err |-> NoErr]

\* return nil, err
ReturnErr(kind, key) ==
    [res |-> "err", hasMap |-> FALSE, defaults |-> EmptyMap,
     err |-> [kind |-> kind, key |-> key]]

\* no function is called on its own
NoCall == [fn |-> "none", done |-> TRUE]

Start(a, fs, d) ==
    /\ call = NoCall
    /\ api = a
    /\ files = fs
    /\ dest = d
    /\ vals = PreVals(d.type, d.preset)
    /\ idx = 1
    /\ pc = "open"
    /\ handles = {}
    /\ opened = <<>>
    /\ kvs = EmptyMap
    /\ ret = NoReturn

\* several sources merged into one of the repository's own structs
InitSources ==
    \E fs \in FileLists, d \in SmallDests :
        \E a \in (IF Len(fs) = 1 THEN {"Merge", "Load"} ELSE {"Merge"}) :
            Start(a, fs, d)

\* one source merged into a generated struct
InitFields ==
    \E x \in ProbeFields, y \in CompanionFields,
       va \in Entries(RawValues), vb \in Entries(CompanionValues) :
        \E T \in Shapes(x, y) :
            Start("Merge", <<File(TRUE, Disk("ok", Render(va, vb), FALSE))>>,
                  Dest("ptr", T, TRUE))

Init == InitSources \/ InitFields

(***************************************************************************)
(* The steps of the call                                                   *)
(***************************************************************************)
\* the keys of the defaults a walk of T can register
RECURSIVE DefaultKeys(_)
DefaultKeys(T) ==
    UNION {IF T[i].kind = "struct" THEN DefaultKeys(T[i].fields)
           ELSE IF Len(T[i].def) > 0 THEN {KeyOf(T[i])} ELSE {}
           : i \in 1..Len(T)}

\* the orders in which a range over the defaults map may visit its keys
KeyOrders(K) ==
    {s \in [1..Cardinality(K) -> K] :
        \A m, n \in 1..Cardinality(K) : s[m] = s[n] => m = n}

Orders(T) == KeyOrders(DefaultKeys(T))

\* the function returns: its deferred f.Close() calls run
Return(r) ==
    /\ ret' = r
    /\ pc' = "done"
    /\ handles' = {}

\* a skip of every missing source, Required or not
MergeSkipRequiredToo ==
    /\ api = "Merge" /\ pc = "open" /\ idx <= Len(files)
    /\ files[idx].disk.state = "absent"
    /\ idx' = idx + 1
    /\ UNCHANGED <<call, api, files, dest, vals, pc, handles, opened, kvs, ret>>

\* os.Open fails with os.IsNotExist on a source that is not Required: continue
MergeSkip ==
    /\ api = "Merge" /\ pc = "open" /\ idx <= Len(files)
    /\ files[idx].disk.state = "absent" /\ ~files[idx].Required
    /\ idx' = idx + 1
    /\ UNCHANGED <<call, api, files, dest, vals, pc, handles, opened, kvs, ret>>

\* os.Open fails otherwise: return nil, err
MergeOpenFail ==
    /\ api = "Merge" /\ pc = "open" /\ idx <= Len(files)
    /\ files[idx].disk.state # "ok"
    /\ ~(files[idx].disk.state = "absent" /\ ~files[idx].Required)
    /\ Return(ReturnErr("open", <<>>))
    /\ UNCHANGED <<call, api, files, dest, vals, idx, opened, kvs>>

\* os.Open succeeds; defer f.Close()
OpenFile ==
    /\ pc = "open" /\ idx <= Len(files)
    /\ files[idx].disk.state = "ok"
    /\ handles' = handles \cup {idx}
    /\ opened' = Append(opened, idx)
    /\ pc' = "parse"
    /\ UNCHANGED <<call, api, files, dest, vals, idx, kvs, ret>>

MergeOpen == api = "Merge" /\ OpenFile

\* parse fails: return nil, err
ParseFail ==
    /\ pc = "parse"
    /\ files[idx].disk.readErr
    /\ Return(ReturnErr("read", <<>>))
    /\ UNCHANGED <<call, api, files, dest, vals, idx, opened, kvs>>

MergeParseFail == api = "Merge" /\ ParseFail

\* a fold that also sets the fields from the table read so far
ParseFileSettingFields ==
    /\ pc = "parse"
    /\ ~files[idx].disk.readErr
    /\ kvs' = Fold(kvs, parse(files[idx].disk.text))
    /\ idx' = idx + 1
    /\ pc' = "open"
    /\ \E ord \in Orders(dest.type) :
          vals' = setFields(Fold(kvs, parse(files[idx].disk.text)),
                            dest, vals, ord).vals
    /\ UNCHANGED <<call, api, files, dest, handles, opened, ret>>

\* parse succeeds and its table is folded into kvs
ParseFile ==
    /\ pc = "parse"
    /\ ~files[idx].disk.readErr
    /\ kvs' = Fold(kvs, parse(files[idx].disk.text))
    /\ idx' = idx + 1
    /\ pc' = "open"
    /\ UNCHANGED <<call, api, files, dest, vals, handles, opened, ret>>

MergeParse == api = "Merge" /\ ParseFile

\* what the call returns after setFields ended as st
Returned(st) ==
    IF st.res = "ok"
    THEN [res |-> "ok", hasMap |-> TRUE,
          defaults |-> [k \in DOMAIN st.defaults |-> st.defaults[k].Value],
          err |-> NoErr]
    ELSE [res |-> st.res, hasMap |-> FALSE, defaults |-> EmptyMap,
          err |-> st.err]

ReturnFrom(st) ==
    /\ vals' = st.vals
    /\ Return(Returned(st))

\* past the last source: setFields(kvs, defaults, dest) and the return
SetFieldsAndReturn ==
    /\ pc = "open" /\ idx > Len(files)
    /\ \E ord \in Orders(dest.type) :
        ReturnFrom(setFields(kvs, dest, vals, ord))
    /\ UNCHANGED <<call, api, files, dest, idx, opened, kvs>>

MergeSetFields == api = "Merge" /\ SetFieldsAndReturn

\* LoadConfigInto: os.Open fails: return nil, err
LoadOpenFail ==
    /\ api = "Load" /\ pc = "open" /\ idx <= Len(files)
    /\ files[idx].disk.state # "ok"
    /\ Return(ReturnErr("open", <<>>))
    /\ UNCHANGED <<call, api, files, dest, vals, idx, opened, kvs>>

LoadOpen == api = "Load" /\ OpenFile

LoadParseFail == api = "Load" /\ ParseFail

LoadParse == api = "Load" /\ ParseFile

LoadSetFields == api = "Load" /\ SetFieldsAndReturn

Next ==
    \/ MergeSkip
    \/ MergeOpenFail
    \/ MergeOpen
    \/ MergeParseFail
    \/ MergeParse
    \/ MergeSetFields
    \/ LoadOpenFail
    \/ LoadOpen
    \/ LoadParseFail
    \/ LoadParse
    \/ LoadSetFields

Spec == Init /\ [][Next]_vars

(***************************************************************************)
(* One call of parse, FileSize.Unmarshal, FileSize.HumanReadable or        *)
(* setField on its own                                                     *)
(***************************************************************************)
\* the most lines of a text handed to parse
MaxLines == 3

\* the lines of the texts handed to parse
LineInputs ==
    {<<"k", "=", "v">>,
     <<" ", " ", "k", " ", "=", " ", "v", " ", "w", " ", " ">>,
     <<"#", " ", "k", "=", "v">>, <<>>, <<"\t", " ">>,
     <<"n", "o", " ", "p", "a", "i", "r">>, <<"k", "=", "a", "=", "b">>,
     <<"k", "2", " ", "=", " ", "\"", "q", "\"", "\r">>, <<"=", "v">>,
     <<"k", " ", "=">>, <<" ", " ", "#", "c", "=", "1">>, <<"K", "=", "v">>}

\* the texts of n of these lines, each ended by a newline
RECURSIVE TextsOf(_)
TextsOf(n) ==
    IF n = 0 THEN {<<>>}
    ELSE {t \o l \o <<"\n">> : t \in TextsOf(n - 1), l \in LineInputs}

\* a text whose last line has no newline
Unterminated(text) == IF text = <<>> THEN text ELSE Take(text, Len(text) - 1)

TextInputs ==
    UNION {TextsOf(n) \cup {Unterminated(t) : t \in TextsOf(n)} : n \in 0..MaxLines}

\* the strings handed to FileSize.Unmarshal
SizeInputs ==
    {<<>>, <<"0">>, <<"5">>, <<"1", "0", "2", "4">>, <<"0", "0", "7">>,
     <<"5", "B">>, <<"5", "b">>, <<"1", "K", "B">>, <<"1", "k", "b">>,
     <<"1", "K", "b">>, <<"2", " ", "K", "B">>,
     <<" ", "1", "0", "M", "B", " ">>, <<"1", "0", "m", "b">>,
     <<"1", "G", "B">>, <<"1", "g", "B">>, <<"1", "0", "K">>,
     <<"1", "0", "k">>, <<"1", "M">>, <<"1", "m">>, <<"1", "G">>, <<"b">>,
     <<"B">>, <<"k", "b">>, <<"K", "B">>, <<"m", "b">>, <<" ">>,
     <<" ", " ">>, <<"a", "b", "c">>, <<"1", "0", "X", "B">>, <<"-", "1">>,
     <<"1", ".", "5", "M", "B">>, <<"1", " ", "0", "K", "B">>}

\* the byte counts handed to HumanReadable
CountInputs ==
    {0, 1, 5, 999, 1023, 1024, 1025, 1126, 1127, 1536, 4096, 4314, 6680,
     10239, 10240, 10241, 1048575, 1048576, 1048577, 1153434, 237797290,
     1073741823, 1073741824, 1073741825, 1181116006}

\* the raw strings handed to setField
FieldInputs ==
    {<<>>, <<"0">>, <<"1">>, <<"4", "2">>, <<"-", "4", "2">>, <<"+", "7">>,
     <<"a", "b", "c">>, <<"3", "0", "0">>, <<"-", "1", "2", "9">>,
     <<"1", "2", "8">>, <<"4", "0", "0", "0", "0">>,
     <<"-", "4", "0", "0", "0", "0">>, <<"1", "s">>, <<"1", "m", "s">>,
     <<"-", "1", "s">>, <<"1", ".", "5", "s">>, <<"5", "n", "s">>,
     <<"y", "e", "s">>, <<"Y", "E", "S">>, <<"Y", "e", "s">>,
     <<"y", "E", "s">>, <<"y", "e", "S">>, <<"Y", "e", "S">>, <<"n", "o">>,
     <<"N", "O">>, <<"N", "o">>, <<"n", "O">>, <<"t", "r", "u", "e">>,
     <<"T", "R", "U", "E">>, <<"T", "r", "u", "e">>, <<"t", "R", "U", "E">>,
     <<"f", "a", "l", "s", "e">>, <<"F", "A", "L", "S", "E">>,
     <<"F", "a", "l", "s", "e">>, <<"t">>, <<"f">>, <<"T">>, <<"F">>,
     <<"y">>, <<"o", "n">>, <<"1", ".", "5">>, <<"1", "e", "2">>,
     <<"-", "0", ".", "5">>, <<".">>, <<"1", "0", "M", "B">>, <<"b">>,
     <<"i", "n", "f", "o">>, <<"D", "e", "b", "u", "g">>, <<" ", "4", "2">>,
     <<"4", "2", " ">>}

\* the call of a function on its own: fn names it, kind is the type of the
\* field (setField), recv what the receiver or the field holds before the
\* call, arg the string or number handed over, out what the call gives
Call(fn, kind, recv, arg) ==
    [fn |-> fn, kind |-> kind, recv |-> recv, arg |-> arg,
     done |-> FALSE, out |-> <<>>]

CallInputs ==
    {Call("parse", "", 0, t) : t \in TextInputs}
        \cup {Call("Unmarshal", "FileSize", r, s) : r \in {0, 7}, s \in SizeInputs}
        \cup {Call("HumanReadable", "FileSize", n, <<>>) : n \in CountInputs}
        \cup UNION {{Call("setField", k, r, s) : r \in {Zero(k), NonZero(k)},
                                                  s \in FieldInputs}
                    : k \in LeafKinds}

\* no merge is running
InitCalls ==
    /\ call \in CallInputs
    /\ api = "none"
    /\ files = <<>>
    /\ dest = Dest("value", <<>>, FALSE)
    /\ vals = EmptyMap
    /\ idx = 1
    /\ pc = "done"
    /\ handles = {}
    /\ opened = <<>>
    /\ kvs = EmptyMap
    /\ ret = NoReturn

Returns(out) ==
    /\ ~call.done
    /\ call' = [call EXCEPT !.done = TRUE, !.out = out]
    /\ UNCHANGED <<api, files, dest, vals, idx, pc, handles, opened, kvs, ret>>

CallParse == call.fn = "parse" /\ Returns(parse(call.arg))

CallUnmarshal == call.fn = "Unmarshal" /\ Returns(Unmarshal(call.recv, call.arg))

CallHumanReadable ==
    call.fn = "HumanReadable" /\ Returns(HumanReadable(call.recv))

CallSetField ==
    call.fn = "setField" /\ Returns(setField(call.kind, call.recv, call.arg))

NextCalls ==
    \/ CallParse
    \/ CallUnmarshal
    \/ CallHumanReadable
    \/ CallSetField

SpecCalls == InitCalls /\ [][NextCalls]_vars

(***************************************************************************)
(* The terms of the specification's claims                                 *)
(***************************************************************************)
Finished == pc = "done"

\* the non-struct fields of the target, by path
Leaves == LeafPaths(dest.type, <<>>)

Fld(p) == FieldAt(dest.type, p)

Key(p) == KeyOf(Fld(p))

\* a settable field, not excluded by cfg:"-"
Bound(p) == Fld(p).CanSet /\ Fld(p).cfg # <<"-">>

HasDefault(p) == Len(Fld(p).def) > 0

HasEntry(p) == Key(p) \in DOMAIN kvs

PreMerge(p) == PreVals(dest.type, dest.preset)[p]

\* the call reached setFields on a pointer to a struct
Walked == Finished /\ dest.shape = "ptr" /\ ret.err.kind \notin {"open", "read"}

\* the value range of an integer type (types of 32 and 64 bits hold every
\* magnitude of the model)
Fits(kind, x) ==
    CASE kind = "int8" -> -128 <= x /\ x <= 127
      [] kind = "int16" -> -32768 <= x /\ x <= 32767
      [] kind = "uint8" -> 0 <= x /\ x <= 255
      [] kind = "uint16" -> 0 <= x /\ x <= 65535
      [] OTHER -> TRUE

\* the unit suffixes of a size expression and their multipliers
SizeSuffixes ==
    {<<>>, <<"b">>, <<"k">>, <<"k", "b">>, <<"m">>, <<"m", "b">>,
     <<"g">>, <<"g", "b">>, <<"t">>, <<"t", "b">>}

SizeMultiplier(u) ==
    CASE u \in {<<>>, <<"b">>} -> 1
      [] u \in {<<"k">>, <<"k", "b">>} -> 2 ^ 10
      [] u \in {<<"m">>, <<"m", "b">>} -> 2 ^ 20
      [] u \in {<<"g">>, <<"g", "b">>} -> 2 ^ 30
      [] OTHER -> 2 ^ 40

\* raw reads as a decimal magnitude followed by the suffix u, in any case
IsSizeWith(raw, u) ==
    /\ Len(raw) >= Len(u)
    /\ ToLower(Drop(raw, Len(raw) - Len(u))) = u
    /\ ParseUint(TrimSpace(Take(raw, Len(raw) - Len(u)))).ok

\* a size expression: a decimal magnitude and an optional unit suffix
IsSize(raw) == \E u \in SizeSuffixes : IsSizeWith(TrimSpace(raw), u)

SizeValue(raw) ==
    ParseUint(TrimSpace(Take(TrimSpace(raw),
        Len(TrimSpace(raw))
          - Len(CHOOSE u \in SizeSuffixes : IsSizeWith(TrimSpace(raw), u))))).val
      * SizeMultiplier(CHOOSE u \in SizeSuffixes : IsSizeWith(TrimSpace(raw), u))

\* the number an integer field is to take from raw: a duration's ticks, or
\* a base-10 integer
IntegerOf(raw) ==
    IF ParseDuration(raw).ok THEN ParseDuration(raw) ELSE ParseInt(raw)

IsYesNo(raw) == ToLower(raw) \in {<<"y", "e", "s">>, <<"n", "o">>}

\* raw coerces to the type, as the specification describes the coercion
Coerces(kind, raw) ==
    CASE kind = "string" -> TRUE
      [] kind \in SignedKinds \cup {"int32"} ->
            IntegerOf(raw).ok /\ Fits(kind, IntegerOf(raw).val)
      [] kind \in UnsignedKinds \cup {"uint"} ->
            ParseUint(raw).ok /\ Fits(kind, ParseUint(raw).val)
      [] kind = "bool" -> IsYesNo(raw) \/ ParseBool(raw).ok
      [] kind \in FloatKinds -> ParseFloat(raw).ok
      [] kind = "FileSize" -> raw = <<>> \/ IsSize(raw)
      [] kind = "LogLevel" -> UnmarshalLogLevel(0, raw).res = "ok"

\* the value it coerces to
Coerced(kind, raw) ==
    CASE kind = "string" -> raw
      [] kind \in SignedKinds \cup {"int32"} -> IntegerOf(raw).val
      [] kind \in UnsignedKinds \cup {"uint"} -> ParseUint(raw).val
      [] kind = "bool" ->
            IF IsYesNo(raw) THEN ToLower(raw) = <<"y", "e", "s">>
            ELSE ParseBool(raw).val
      [] kind \in FloatKinds -> ParseFloat(raw).val
      [] kind = "FileSize" -> IF raw = <<>> THEN 0 ELSE SizeValue(raw)
      [] kind = "LogLevel" -> UnmarshalLogLevel(0, raw).val

\* the field's table entry is there and coerces
GoodEntry(p) == HasEntry(p) /\ Coerces(Fld(p).kind, kvs[Key(p)])

\* the field's table entry is there and does not coerce
BadEntry(p) == HasEntry(p) /\ ~Coerces(Fld(p).kind, kvs[Key(p)])

GoodDefault(p) == HasDefault(p) /\ Coerces(Fld(p).kind, Fld(p).def)

BadDefault(p) == HasDefault(p) /\ ~Coerces(Fld(p).kind, Fld(p).def)

\* the field holds the value coerced from its table entry
FromEntry(p) == GoodEntry(p) /\ vals[p] = Coerced(Fld(p).kind, kvs[Key(p)])

\* the field holds the value coerced from its default
FromDefault(p) == GoodDefault(p) /\ vals[p] = Coerced(Fld(p).kind, Fld(p).def)

\* the audit mapping reports the field's default
Audited(p) ==
    /\ ret.hasMap
    /\ Key(p) \in DOMAIN ret.defaults
    /\ ret.defaults[Key(p)] = Fld(p).def

\* the lines of the sources the call has read to the end, in list order and
\* then in line order
RECURSIVE LinesRead(_)
LinesRead(s) ==
    IF s = 0 THEN <<>>
    ELSE IF s < idx /\ \E n \in 1..Len(opened) : opened[n] = s
    THEN LinesRead(s - 1) \o ScanLines(files[s].disk.text)
    ELSE LinesRead(s - 1)

\* what each of the first n lines defines on its own (one key at most)
RECURSIVE LineTables(_, _)
LineTables(lines, n) ==
    IF n = 0 THEN <<>>
    ELSE Append(LineTables(lines, n - 1), parseLine(EmptyMap, lines[n]))

TablesOf(lines) == LineTables(lines, Len(lines))

\* the last line that defines k
LastPlace(tables, k) ==
    CHOOSE n \in 1..Len(tables) :
        /\ k \in DOMAIN tables[n]
        /\ \A m \in (n + 1)..Len(tables) : k \notin DOMAIN tables[m]

\* the table holds, for each key the lines define, the last definition
LastWins(tables, table) ==
    /\ DOMAIN table = UNION {DOMAIN tables[n] : n \in 1..Len(tables)}
    /\ \A k \in DOMAIN table : table[k] = tables[LastPlace(tables, k)][k]

\* what the code's coercion of the field's table entry gives
EntrySet(p) == setField(Fld(p).kind, PreMerge(p), kvs[Key(p)])

\* what the code's coercion of the field's default gives
DefaultSet(p) == setField(Fld(p).kind, PreMerge(p), Fld(p).def)

\* the flat key of a field: its own cfg tag or, without one, its own name
OwnKey(p) == IF Fld(p).cfg = <<>> THEN Fld(p).Name ELSE Fld(p).cfg

\* what the code's coercion of the entry under the field's own key gives
OwnEntrySet(p) == setField(Fld(p).kind, PreMerge(p), kvs[OwnKey(p)])

\* C3 (overlay precedence): at every moment the accumulated table holds, for
\* each key the sources read so far define, the value of the last source in
\* list order that defines it and, within that source, of its last line
\* defining it, so a key only an earlier source defines keeps that value;
\* and after a successful merge a field whose entry coerces holds the value
\* coerced from exactly that entry.
C3_OverlayPrecedence ==
    /\ LastWins(TablesOf(LinesRead(Len(files))), kvs)
    /\ (Walked /\ ret.res = "ok") =>
          \A p \in Leaves :
              (Bound(p) /\ HasEntry(p) /\ EntrySet(p).res = "ok") =>
                  vals[p] = EntrySet(p).val

\* two sources define the field's key differently, the second overrides the
\* first, a key of the first alone survives, and the field holds the value
\* of the second
C3_Witness ==
    /\ Finished /\ ret.res = "ok" /\ Len(files) = 2 /\ Len(opened) = 2
    /\ \E p \in Leaves :
          /\ Bound(p)
          /\ Key(p) \in DOMAIN parse(files[1].disk.text)
          /\ Key(p) \in DOMAIN parse(files[2].disk.text)
          /\ parse(files[1].disk.text)[Key(p)] # parse(files[2].disk.text)[Key(p)]
          /\ kvs[Key(p)] = parse(files[2].disk.text)[Key(p)]
          /\ EntrySet(p).res = "ok"
          /\ vals[p] = EntrySet(p).val
          /\ vals[p] # PreMerge(p)
    /\ \E k \in DOMAIN kvs :
          /\ k \notin DOMAIN parse(files[2].disk.text)
          /\ kvs[k] = parse(files[1].disk.text)[k]

\* the source the loop is at is missing
AtMissing ==
    /\ api = "Merge" /\ pc = "open" /\ idx <= Len(files)
    /\ files[idx].disk.state = "absent"

\* the step skips the source: an empty overlay, and on to the next source
SkipsSource ==
    /\ idx' = idx + 1 /\ pc' = "open"
    /\ ret' = NoReturn /\ kvs' = kvs /\ vals' = vals /\ opened' = opened

\* the step aborts the merge with an error and without an audit mapping
AbortsMerge ==
    /\ pc' = "done" /\ ret'.res = "err" /\ ~ret'.hasMap
    /\ vals' = vals /\ opened' = opened

\* the step leaves the call where it is: no source is opened, none passed
OpensNothing == opened' = opened /\ idx' = idx

\* the step opens the next source in list order
OpensInOrder ==
    \/ opened' = opened
    \/ /\ opened' = Append(opened, idx)
       /\ \A n \in 1..Len(opened) : opened[n] < idx

\* C4 (missing-source handling): the merge opens its sources in list order;
\* a missing source that is not Required is skipped, without an error, and
\* the merge goes on to the next source; a missing source that is Required
\* aborts the merge with an error and no audit mapping; once the merge has
\* ended no later source is opened.
C4_MissingSource ==
    [][/\ OpensInOrder
       /\ (AtMissing /\ ~files[idx].Required) => SkipsSource
       /\ (AtMissing /\ files[idx].Required) => AbortsMerge
       /\ Finished => OpensNothing]_vars

\* a first source that is missing and not Required was skipped and the next,
\* missing and Required, aborted the merge
C4_Witness ==
    /\ api = "Merge" /\ Finished /\ Len(files) = 2 /\ idx = 2
    /\ files[1].disk.state = "absent" /\ ~files[1].Required
    /\ files[2].disk.state = "absent" /\ files[2].Required
    /\ ret.res = "err" /\ ret.err.kind = "open" /\ ~ret.hasMap
    /\ opened = <<>>

\* C10 (nested records share the flat key namespace): after a successful
\* merge a leaf field inside nested structs, at any depth, holds the value
\* coerced from the table entry under its own tag (no prefix from the
\* structs around it) when that entry coerces; otherwise, when it declares
\* a default, it holds the coerced default and the one audit mapping, which
\* also reports the top-level fields, reports that default under the same
\* flat key.
C10_FlatNamespace ==
    (Walked /\ ret.res = "ok") =>
        \A p \in Leaves :
            (Len(p) >= 2 /\ Bound(p)) =>
                /\ (OwnKey(p) \in DOMAIN kvs /\ OwnEntrySet(p).res = "ok") =>
                      /\ vals[p] = OwnEntrySet(p).val
                      /\ OwnKey(p) \notin DOMAIN ret.defaults
                /\ (HasDefault(p)
                      /\ ~(OwnKey(p) \in DOMAIN kvs /\ OwnEntrySet(p).res = "ok")) =>
                      /\ vals[p] = DefaultSet(p).val
                      /\ OwnKey(p) \in DOMAIN ret.defaults
                      /\ ret.defaults[OwnKey(p)] = Fld(p).def

\* a field two structs deep is set from the entry under its own tag, another
\* two structs deep takes its default, and the audit mapping reports that
\* default next to the default of a top-level field
C10_Witness ==
    /\ Walked /\ ret.res = "ok"
    /\ \E p, q, r \in Leaves :
          /\ Len(p) = 3 /\ Bound(p) /\ OwnKey(p) \in DOMAIN kvs
          /\ vals[p] = OwnEntrySet(p).val /\ vals[p] # PreMerge(p)
          /\ Len(q) = 3 /\ Bound(q) /\ HasDefault(q)
          /\ OwnKey(q) \in DOMAIN ret.defaults
          /\ vals[q] = DefaultSet(q).val /\ vals[q] # PreMerge(q)
          /\ Len(r) = 1 /\ Bound(r) /\ HasDefault(r)
          /\ OwnKey(r) \in DOMAIN ret.defaults

\* the merge ended with an error raised for the field's key
ErrorFor(p) == ret.res = "err" /\ ret.err.kind \in {"value", "default"}
                  /\ ret.err.key = Key(p)

\* the settable, non-excluded fields have pairwise distinct keys
DistinctKeys ==
    \A p, q \in Leaves : (Bound(p) /\ Bound(q) /\ p # q) => Key(p) # Key(q)

\* C1 (default fallback on a bad file value): for a field that declares a
\* default which coerces and whose table entry does not coerce, the merge
\* does not crash and raises no error for the field, and when it returns no
\* error the field holds the value coerced from its default and the audit
\* mapping has its key with the raw default.
C1_DefaultFallback ==
    Walked =>
        \A p \in Leaves :
            (Bound(p) /\ GoodDefault(p) /\ BadEntry(p)) =>
                /\ ret.res # "panic"
                /\ ~ErrorFor(p)
                /\ ret.res = "ok" => (FromDefault(p) /\ Audited(p))

\* C2 (audit mapping exactness): after a successful merge into a struct of
\* pairwise distinct keys, the audit mapping has the key of a field exactly
\* when the field declares a default and its table entry is absent or does
\* not coerce, and every field it has holds its coerced default.
C2_AuditExact ==
    (Walked /\ ret.res = "ok" /\ DistinctKeys) =>
        \A p \in Leaves :
            Bound(p) =>
                /\ Key(p) \in DOMAIN ret.defaults
                      <=> (HasDefault(p) /\ ~GoodEntry(p))
                /\ Key(p) \in DOMAIN ret.defaults =>
                      (Audited(p) /\ FromDefault(p))

\* C5 (fields without a default): for a settable, non-excluded field with no
\* default, an entry that does not coerce makes the merge return an error,
\* an error is raised for the field only by such an entry, and without an
\* entry the field keeps its pre-merge value.
C5_NoDefault ==
    Walked =>
        \A p \in Leaves :
            (Bound(p) /\ ~HasDefault(p)) =>
                /\ BadEntry(p) => ret.res = "err"
                /\ ErrorFor(p) => BadEntry(p)
                /\ ~HasEntry(p) => (vals[p] = PreMerge(p) /\ ~ErrorFor(p))

\* C6 (every field is assigned when it can be): after a merge that returns
\* no error, every settable, non-excluded leaf field with a table entry or a
\* default holds the value coerced from the entry or from the default.
C6_EveryFieldAssigned ==
    (Walked /\ ret.res = "ok") =>
        \A p \in Leaves :
            (Bound(p) /\ (HasEntry(p) \/ HasDefault(p))) =>
                (FromEntry(p) \/ FromDefault(p))

\* C7 (file-handle scoping): at most one source file handle is open at any
\* moment, and none is open when the next source is about to be opened.
C7_OneHandle ==
    api = "Merge" =>
        /\ Cardinality(handles) <= 1
        /\ (pc = "open" /\ idx <= Len(files)) => handles = {}

\* C8 (default coercion failure is fatal): when a field's default does not
\* coerce and the field was not set from a table entry that coerces, the
\* merge returns an error and no audit mapping, whatever the field's type
\* and depth.
C8_DefaultFatal ==
    Walked =>
        \A p \in Leaves :
            (Bound(p) /\ BadDefault(p) /\ ~GoodEntry(p)) =>
                (ret.res = "err" /\ ~ret.hasMap)

\* C9 (target shape error): when the handle is not a pointer to a struct,
\* the call that read its sources returns the target-shape error, without a
\* crash, and no field is mutated.
C9_TargetShape ==
    (Finished /\ dest.shape # "ptr" /\ ret.err.kind \notin {"open", "read"}) =>
        /\ ret.res = "err" /\ ret.err.kind = "ptr"
        /\ vals = PreVals(dest.type, dest.preset)

\* the function fn was called on its own and has returned
Called(fn) == call.fn = fn /\ call.done

\* the pieces of a text between its newlines
RECURSIVE SplitNewlines(_)
SplitNewlines(text) ==
    IF \A i \in 1..Len(text) : text[i] # "\n" THEN <<text>>
    ELSE <<SubSeq(text, 1, (CHOOSE i \in 1..Len(text) :
                               text[i] = "\n" /\ \A j \in 1..(i - 1) : text[j] # "\n") - 1)>>
            \o SplitNewlines(SubSeq(text,
                   (CHOOSE i \in 1..Len(text) :
                       text[i] = "\n" /\ \A j \in 1..(i - 1) : text[j] # "\n") + 1,
                   Len(text)))

\* the places of x that hold no whitespace
Inked(x) == {i \in 1..Len(x) : ~IsSpace(x[i])}

\* x without the whitespace around it
Stripped(x) ==
    IF Inked(x) = {} THEN <<>>
    ELSE SubSeq(x, CHOOSE i \in Inked(x) : \A j \in Inked(x) : i <= j,
                   CHOOSE i \in Inked(x) : \A j \in Inked(x) : i >= j)

\* x without the whitespace before it
StrippedLeft(x) ==
    IF Inked(x) = {} THEN <<>>
    ELSE SubSeq(x, CHOOSE i \in Inked(x) : \A j \in Inked(x) : i <= j, Len(x))

\* x without the whitespace after it
StrippedRight(x) ==
    IF Inked(x) = {} THEN <<>>
    ELSE SubSeq(x, 1, CHOOSE i \in Inked(x) : \A j \in Inked(x) : i >= j)

\* the place of the first '=' of x
FirstEq(x) ==
    CHOOSE i \in 1..Len(x) : x[i] = "=" /\ \A j \in 1..(i - 1) : x[j] # "="

\* a line that defines a key: not empty once its leading whitespace is
\* stripped, no comment, and with a '='
IsPair(line) ==
    /\ StrippedLeft(line) # <<>>
    /\ StrippedLeft(line)[1] # "#"
    /\ \E i \in 1..Len(line) : line[i] = "="

\* its key: the text before the first '=', without trailing whitespace
PairKey(line) ==
    StrippedRight(SubSeq(StrippedLeft(line), 1, FirstEq(StrippedLeft(line)) - 1))

\* its value: the text after the first '=', without the whitespace (CR and
\* LF included) around it
PairValue(line) ==
    Stripped(SubSeq(StrippedLeft(line), FirstEq(StrippedLeft(line)) + 1,
                    Len(StrippedLeft(line))))

PairLines(lines) == {n \in 1..Len(lines) : IsPair(lines[n])}

\* table has one entry for each key the lines define, with the value of the
\* last line that defines the key
TableOfLines(lines, table) ==
    /\ DOMAIN table = {PairKey(lines[n]) : n \in PairLines(lines)}
    /\ \A n \in PairLines(lines) :
          (\A m \in PairLines(lines) :
              m > n => PairKey(lines[m]) # PairKey(lines[n])) =>
            table[PairKey(lines[n])] = PairValue(lines[n])

IsMagnitudeWith(raw, u) ==
    /\ Len(raw) > Len(u)
    /\ ToLower(SubSeq(raw, Len(raw) - Len(u) + 1, Len(raw))) = u
    /\ AllDigits(SubSeq(raw, 1, Len(raw) - Len(u)))
    /\ ParseUint(SubSeq(raw, 1, Len(raw) - Len(u))).ok

MagnitudeOf(raw, u) == ParseUint(SubSeq(raw, 1, Len(raw) - Len(u))).val

\* C12 (size decoding result): FileSize.Unmarshal of a decimal magnitude n
\* followed by no suffix or by B, K, KB, M, MB, G, GB, T or TB in any letter
\* case returns no error and stores n times the multiplier of the unit.
C12_SizeDecoding ==
    Called("Unmarshal") =>
        \A u \in SizeSuffixes :
            IsMagnitudeWith(call.arg, u) =>
                /\ call.out.res = "ok"
                /\ call.out.val = MagnitudeOf(call.arg, u) * SizeMultiplier(u)

\* C13 (empty size decodes to zero): FileSize.Unmarshal of the empty string
\* returns no error and leaves 0 in the receiver, whatever it held before.
C13_EmptySizeIsZero ==
    (Called("Unmarshal") /\ call.arg = <<>>) =>
        (call.out.res = "ok" /\ call.out.val = 0)

\* the names of the units 1024^0 .. 1024^4
UnitNames == <<<<"B">>, <<"K", "B">>, <<"M", "B">>, <<"G", "B">>, <<"T", "B">>>>

\* 1024^u is the largest unit that does not exceed v
IsLargestUnit(v, u) ==
    /\ v \div (1024 ^ u) >= 1
    /\ u = 4 \/ v \div (1024 ^ u) < 1024

\* t tenths are not below r / unit
TenthsCover(t, r, unit) ==
    \/ (10 * r) \div unit < t
    \/ (10 * r) \div unit = t /\ (10 * r) % unit = 0

\* v / unit rounded up to the next tenth, in tenths
RoundedUpTenths(v, unit) ==
    10 * (v \div unit)
      + CHOOSE t \in 0..10 :
            /\ TenthsCover(t, v % unit, unit)
            /\ \A s \in 0..(t - 1) : ~TenthsCover(s, v % unit, unit)

\* text is the decimal numeral of n
IsNumeral(text, n) ==
    /\ Len(text) > 0 /\ AllDigits(text) /\ DecValue(text) = n
    /\ Len(text) > 1 => text[1] # "0"

\* text is the number of tenths written with one decimal place
IsOneDecimal(text, tenths) ==
    /\ Len(text) >= 3
    /\ text[Len(text) - 1] = "."
    /\ IsDigit(text[Len(text)])
    /\ DigitVal(text[Len(text)]) = tenths % 10
    /\ IsNumeral(SubSeq(text, 1, Len(text) - 2), tenths \div 10)

\* text ends with a space and the name of unit u; before them it has a number
EndsWithUnit(text, u) ==
    /\ Len(text) > Len(UnitNames[u + 1]) + 1
    /\ SubSeq(text, Len(text) - Len(UnitNames[u + 1]), Len(text))
          = <<" ">> \o UnitNames[u + 1]

NumberPart(text, u) == SubSeq(text, 1, Len(text) - Len(UnitNames[u + 1]) - 1)

\* text renders v in the unit 1024^u
Renders(text, v, u) ==
    /\ EndsWithUnit(text, u)
    /\ IF u = 0 THEN IsNumeral(NumberPart(text, u), v)
       ELSE IsOneDecimal(NumberPart(text, u), RoundedUpTenths(v, 1024 ^ u))

C15_IntegerCoercion ==
    (Called("setField") /\ call.kind \in SignedKinds \cup {"int32"}) =>
        IF Coerces(call.kind, call.arg)
        THEN call.out = Outcome("ok", Coerced(call.kind, call.arg))
        ELSE call.out = Outcome("err", call.recv)

\* C16 (boolean coercion): setField on a boolean field stores true for
\* "yes" and false for "no" in every capitalization, the value of a
\* standard boolean literal otherwise, and returns an error for every other
\* token.
C16_BooleanCoercion ==
    (Called("setField") /\ call.kind = "bool") =>
        IF IsYesNo(call.arg)
        THEN call.out = Outcome("ok", ToLower(call.arg) = <<"y", "e", "s">>)
        ELSE IF ParseBool(call.arg).ok
        THEN call.out = Outcome("ok", ParseBool(call.arg).val)
        ELSE call.out = Outcome("err", call.recv)

\* C17 (decoders fail with an error value, never a crash): for a FileSize
\* field setField gives what FileSize.Unmarshal gives for the same string,
\* and FileSize.Unmarshal, called directly or through setField, returns an
\* error for every string that is no size expression, a lone unit letter,
\* a bare suffix and a whitespace-only string included.
C17_DecoderErrors ==
    /\ (Called("setField") /\ call.kind = "FileSize") =>
          call.out = Unmarshal(call.recv, call.arg)
    /\ ((Called("Unmarshal") \/ (Called("setField") /\ call.kind = "FileSize"))
          /\ call.arg # <<>> /\ ~IsSize(call.arg)) =>
          call.out = Outcome("err", call.recv)

\* C18 (source failure leaves the target untouched): in MergeConfigsInto
\* no field of the target is written before every source has been opened
\* and parsed; so when the merge aborts because a source is missing and
\* Required, cannot be opened or cannot be read, every field holds its
\* pre-merge value and no audit mapping is returned, however many earlier
\* sources were read.
C18_SourceFailure ==
    api = "Merge" =>
        /\ ~Finished => vals = PreVals(dest.type, dest.preset)
        /\ (Finished /\ ret.err.kind \in {"open", "read"}) =>
              /\ vals = PreVals(dest.type, dest.preset)
              /\ ret.res = "err" /\ ~ret.hasMap

\* a first source was read and defines the key of a field of the target, the
\* second is missing and Required, and the merge ended with the fields as
\* they were
C18_Witness ==
    /\ api = "Merge" /\ Finished /\ dest.shape = "ptr"
    /\ Len(files) = 2 /\ opened = <<1>> /\ idx = 2
    /\ files[2].disk.state = "absent" /\ files[2].Required
    /\ ret.res = "err" /\ ret.err.kind = "open" /\ ~ret.hasMap
    /\ \E p \in Leaves : Bound(p) /\ HasEntry(p) /\ EntrySet(p).res = "ok"
                           /\ EntrySet(p).val # PreMerge(p)
    /\ vals = PreVals(dest.type, dest.preset)

=============================================================================
